---------------------------- MODULE Spec2Model ----------------------------
(***************************************************************************)
(* go-redis-setlock (src/main.go): NumProcs invocations of run() contend   *)
(* for one key of one Redis server.  Each invocation parses its options,   *)
(* dials the server, checks its version, takes the lock with               *)
(* SET key token EX expires NX, supervises the guarded command and         *)
(* releases the lock with the compare-and-delete script.                   *)
(*                                                                         *)
(* Time is not measured: a sleep ends, a TTL elapses and the dial deadline  *)
(* passes at any moment, which covers every timing of the real processes.  *)
(* Every invocation runs with the default --expires.  Tokens come from     *)
(* crypto/rand (128 bits) and are modelled as fresh values.  OS signals    *)
(* are modelled from signal.Notify on (main.go:248); a signal that ends    *)
(* the process by its default disposition is outside the model.            *)
(*                                                                         *)
(* Spec and LiveSpec are the contending invocations.  SupSpec is one       *)
(* invocation alone with more signals.  DialSpec is connectToRedisServer   *)
(* with its clock, VersionSpec is validateRedisVersion on the text of the  *)
(* INFO reply.                                                             *)
(***************************************************************************)
EXTENDS Integers, Sequences, FiniteSets

\* ------------------------------------------------------------- bounds
NumProcs == 2        \* invocations of run() contending for the key
MaxStatus == 1       \* the child exits with a status in 0..MaxStatus
MaxSignals == 1      \* trapped signals delivered over a behaviour
MaxFaults == 1       \* failed dials, error replies, failed starts over a behaviour
MaxAttempts == 2     \* the SET counter saturates here
MaxSupSignals == 2   \* trapped signals delivered to an invocation running alone
MaxExpires == 3       \* --expires, in seconds, of a dial loop run on its own
MaxDialTicks == 3     \* a dial lasts 0..MaxDialTicks ticks of the clock
MaxMajor == 3        \* a server reports a version in 0..MaxMajor,
MaxMinor == 7        \*   0..MaxMinor,
MaxRev == 12         \*   0..MaxRev

\* ---------------------------------------------------- program constants
DefaultExpires == 86400
ExitCodeError == 111
RetryInterval == 500     \* milliseconds
SIGHUP == 1
SIGINT == 2
SIGQUIT == 3
SIGTERM == 15
TrapSignals == {SIGHUP, SIGINT, SIGTERM, SIGQUIT}
NoToken == 0

Procs == 1..NumProcs

Min(a, b) == IF a < b THEN a ELSE b

\* ----------------------------------------------------------- the state
VARIABLES
    pc,         \* position of each invocation's main goroutine
    argv,       \* the flags given on the command line
    opt,        \* Options built by parseOptions
    token,      \* tryGetLock's token
    gotLock,    \* tryGetLock's gotLock
    code,       \* the exit code (invokeCommand's code, then run()'s result)
    cmdErr,     \* invokeCommand's cmdErr
    child,      \* the guarded command: "none", "running", "exited", "failed"
    wpc,        \* the goroutine of main.go:243-245: "off", "wait", "send", "done"
    wres,       \* the value that goroutine sends on cmdCh
    signalCh,   \* signalCh (capacity 1): 0 when empty, else the signal
    store,      \* the entry under the key in Redis
    nextToken,  \* the next fresh token
    nSignals,   \* signals delivered so far
    nFaults,    \* store faults so far
    attempts,   \* history: SET commands issued by tryGetLock (saturating)
    setReply,   \* history: the last SET's outcome
    released,   \* history: the outcomes of the releaseLock calls
    sent,       \* history: the signals forwarded to the child
    expired,    \* history: the entry written by p was removed by its TTL
    tokensSent, \* history: the tokens sent in tryGetLock's SET commands
    ver,        \* validateRedisVersion on its own: the INFO reply and the result
    conn        \* connectToRedisServer on its own, with its clock

vars == <<pc, argv, opt, token, gotLock, code, cmdErr, child, wpc, wres,
          signalCh, store, nextToken, nSignals, nFaults,
          attempts, setReply, released, sent, expired, tokensSent, ver, conn>>

\* the functions studied on their own
unitVars == <<ver, conn>>

procVars == <<argv, opt, token, gotLock, code, cmdErr, child, wpc, wres,
              signalCh, attempts, setReply, released,
              sent, tokensSent>>

\* ------------------------------------------------------------ options
Flags == [n : BOOLEAN, x : BOOLEAN, keep : BOOLEAN, expires : {DefaultExpires}]

NoFlags == [n |-> FALSE, x |-> FALSE, keep |-> FALSE, expires |-> DefaultExpires]

\* mutant of parseOptions: -x is dropped
parseOptionsIgnoringX(f) ==
    [ Keep     |-> f.keep,
      Wait     |-> IF f.n THEN FALSE ELSE TRUE,
      ExitCode |-> ExitCodeError,
      Expires  |-> f.expires ]

parseOptions(f) ==
    [ Keep     |-> f.keep,
      Wait     |-> IF f.n THEN FALSE ELSE TRUE,
      ExitCode |-> IF f.x THEN 0 ELSE ExitCodeError,
      Expires  |-> f.expires ]

\* ------------------------------------------------------------- Redis
NoEntry == [val |-> NoToken, ex |-> 0, by |-> 0]

\* mutant of SetNX: SET without NX
SetWithoutNX(s, value, seconds, p) ==
    [val |-> value, ex |-> seconds, by |-> p]

\* mutant of SetNX: a SET on a held key keeps the value and renews the
\* entry in the name of the caller
SetNXTakesOver(s, value, seconds, p) ==
    IF s.val = NoToken
    THEN [val |-> value, ex |-> seconds, by |-> p]
    ELSE [s EXCEPT !.ex = seconds, !.by = p]

\* SET key value EX seconds NX: the store after the command
SetNX(s, value, seconds, p) ==
    IF s.val = NoToken
    THEN [val |-> value, ex |-> seconds, by |-> p]
    ELSE s

\* mutant of SetNXReply: every SET is answered OK
SetReplyAlwaysOK(s) == "OK"

\* the reply to SET ... NX: "OK", or the nil reply whose Str() is ""
SetNXReply(s) == IF s.val = NoToken THEN "OK" ELSE ""

\* mutant of UnlockLUAScript: DEL without the comparison
UnlockWithoutCompare(s, value) == NoEntry

\* mutant of UnlockLUAScript: the script never deletes
UnlockNeverDeletes(s, value) == s

\* UnlockLUAScript: get == ARGV[1] ? del : 0
UnlockLUAScript(s, value) == IF s.val = value THEN NoEntry ELSE s

\* ------------------------------------------------------ the child's end
NilErr == [kind |-> "nil", status |-> 0]
NotStarted == [kind |-> "other", status |-> 0]

\* what cmd.Wait() returns for a child that ended as `how`
WaitError(how) ==
    IF how.kind = "exited" /\ how.status = 0 THEN NilErr
    ELSE IF how.kind = "exited"
         THEN [kind |-> "ExitError", status |-> how.status]
         ELSE [kind |-> "ExitError", status |-> -1]

ChildEnds ==
    [kind : {"exited"}, status : 0..MaxStatus] \cup {[kind |-> "signaled", status |-> 0]}

\* mutant of ExitCodeOf: the child's status is not taken
ExitCodeOfIgnoringStatus(c, err) == c

\* main.go:264-274
ExitCodeOf(c, err) == IF err.kind = "ExitError" THEN err.status ELSE c

\* --------------------------------------------------------------- Init
\* every invocation is about to call run(); the key is absent
Start ==
    /\ pc = [p \in Procs |-> "parse"]
    /\ argv = [p \in Procs |-> NoFlags]
    /\ opt = [p \in Procs |-> parseOptions(NoFlags)]
    /\ token = [p \in Procs |-> NoToken]
    /\ gotLock = [p \in Procs |-> FALSE]
    /\ code = [p \in Procs |-> 0]
    /\ cmdErr = [p \in Procs |-> NilErr]
    /\ child = [p \in Procs |-> "none"]
    /\ wpc = [p \in Procs |-> "off"]
    /\ wres = [p \in Procs |-> NilErr]
    /\ signalCh = [p \in Procs |-> 0]
    /\ store = NoEntry
    /\ nextToken = 1
    /\ attempts = [p \in Procs |-> 0]
    /\ setReply = [p \in Procs |-> "none"]
    /\ released = [p \in Procs |-> <<>>]
    /\ sent = [p \in Procs |-> <<>>]
    /\ expired = [p \in Procs |-> FALSE]
    /\ tokensSent = [p \in Procs |-> {}]

\* validateRedisVersion and connectToRedisServer are not studied on their own
NoVer == [server |-> <<>>, info |-> <<>>, valid |-> "none"]

NoConn ==
    [pc |-> "off", opt |-> [Wait |-> TRUE, Expires |-> DefaultExpires],
     now |-> 0, dials |-> 0, sleeps |-> 0, err |-> FALSE]

Init == Start /\ nSignals = 0 /\ nFaults = 0 /\ ver = NoVer /\ conn = NoConn

\* ------------------------------------------------------------ actions
\* run(), main.go:109: the options of this invocation
RunParseOptions(p) ==
    /\ pc[p] = "parse"
    /\ \E f \in Flags :
        /\ argv' = [argv EXCEPT ![p] = f]
        /\ opt' = [opt EXCEPT ![p] = parseOptions(f)]
    /\ pc' = [pc EXCEPT ![p] = "dial"]
    /\ UNCHANGED <<token, gotLock, code, cmdErr, child, wpc, wres, signalCh,
                   store, nextToken, nSignals, nFaults,
                   attempts, setReply, released, sent, expired,
                   tokensSent, unitVars>>


\* mutant of TimeoutOf: the deadline is --expires in every mode
TimeoutIgnoringWait(o) == o.Expires

\* connectToRedisServer, main.go:132-135
TimeoutOf(o) == IF o.Wait THEN o.Expires ELSE 0

Timeout(p) == TimeoutOf(opt[p])

\* connectToRedisServer, main.go:138-147: one pass of the dial loop.  On a
\* failed dial `late` says whether elapsed >= timeout*1000; with timeout 0
\* it always is.
Dial(p) ==
    /\ pc[p] = "dial"
    /\ \/ /\ pc' = [pc EXCEPT ![p] = "validate"]
          /\ UNCHANGED <<code, nFaults>>
       \/ /\ nFaults < MaxFaults
          /\ nFaults' = nFaults + 1
          /\ \E late \in {Timeout(p) = 0, TRUE} :
                IF late
                THEN /\ pc' = [pc EXCEPT ![p] = "returned"]
                     /\ code' = [code EXCEPT ![p] = ExitCodeError]
                ELSE /\ pc' = [pc EXCEPT ![p] = "dialsleep"]
                     /\ UNCHANGED code
    /\ UNCHANGED <<argv, opt, token, gotLock, cmdErr, child, wpc, wres,
                   signalCh, store, nextToken, nSignals, attempts, setReply,
                   released, sent, expired,
                   tokensSent, unitVars>>

\* time.Sleep(RetryInterval) is over, main.go:147 and main.go:192
Wake(p) ==
    /\ pc[p] \in {"dialsleep", "sleep"}
    /\ pc' = [pc EXCEPT ![p] = IF pc[p] = "dialsleep" THEN "dial" ELSE "set"]
    /\ UNCHANGED <<procVars, store, nextToken, nSignals, nFaults, expired, unitVars>>

\* the redis_version field of INFO: <<major, minor, rev>>, or <<>> when absent
InfoVersions == {<<>>, <<2, 6, 11>>, <<2, 6, 12>>, <<2, 7, 0>>, <<3, 0, 0>>, <<1, 9, 99>>}

\* main.go:164-177
validateRedisVersion(v) ==
    IF v = <<>> THEN FALSE
    ELSE LET major == v[1]
             minor == v[2]
             rev == v[3]
         IN  (major >= 3) \/ (major = 2 /\ minor >= 7)
                \/ (major = 2 /\ minor = 6 /\ rev >= 12)

\* mutant of Validate: a rejected server gives the contention code
ValidateReturnsContentionCode(p) ==
    /\ pc[p] = "validate"
    /\ \E v \in InfoVersions :
        IF validateRedisVersion(v)
        THEN /\ pc' = [pc EXCEPT ![p] = "token"]
             /\ UNCHANGED code
        ELSE /\ pc' = [pc EXCEPT ![p] = "returned"]
             /\ code' = [code EXCEPT ![p] = opt[p].ExitCode]
    /\ UNCHANGED <<argv, opt, token, gotLock, cmdErr, child, wpc, wres,
                   signalCh, store, nextToken, nSignals,
                   nFaults, attempts, setReply, released, sent, expired,
                   tokensSent, unitVars>>

\* run(), main.go:117-119
Validate(p) ==
    /\ pc[p] = "validate"
    /\ \E v \in InfoVersions :
        IF validateRedisVersion(v)
        THEN /\ pc' = [pc EXCEPT ![p] = "token"]
             /\ UNCHANGED code
        ELSE /\ pc' = [pc EXCEPT ![p] = "returned"]
             /\ code' = [code EXCEPT ![p] = ExitCodeError]
    /\ UNCHANGED <<argv, opt, token, gotLock, cmdErr, child, wpc, wres,
                   signalCh, store, nextToken, nSignals,
                   nFaults, attempts, setReply, released, sent, expired,
                   tokensSent, unitVars>>

\* tryGetLock, main.go:181: createToken(), once, before the loop
CreateToken(p) ==
    /\ pc[p] = "token"
    /\ token' = [token EXCEPT ![p] = nextToken]
    /\ nextToken' = nextToken + 1
    /\ pc' = [pc EXCEPT ![p] = "set"]
    /\ UNCHANGED <<argv, opt, gotLock, code, cmdErr, child, wpc, wres,
                   signalCh, store, nSignals, nFaults,
                   attempts, setReply, released, sent, expired,
                   tokensSent, unitVars>>

\* mutant of AfterSet: the loop sleeps and retries without testing opt.Wait
AfterSetAlwaysWaits(p, locked) ==
    IF locked # ""
    THEN /\ gotLock' = [gotLock EXCEPT ![p] = TRUE]
         /\ pc' = [pc EXCEPT ![p] = "start"]
         /\ UNCHANGED code
    ELSE /\ pc' = [pc EXCEPT ![p] = "sleep"]
         /\ UNCHANGED <<gotLock, code>>

\* mutant of AfterSet: the loop gives up after the first SET in every mode
AfterSetNeverWaits(p, locked) ==
    IF locked # ""
    THEN /\ gotLock' = [gotLock EXCEPT ![p] = TRUE]
         /\ pc' = [pc EXCEPT ![p] = "start"]
         /\ UNCHANGED code
    ELSE /\ pc' = [pc EXCEPT ![p] = "returned"]
         /\ code' = [code EXCEPT ![p] = opt[p].ExitCode]
         /\ UNCHANGED gotLock

\* mutant of AfterSet: in wait mode the loop gives up on its second failure
AfterSetGivesUpOnRetry(p, locked) ==
    IF locked # ""
    THEN /\ gotLock' = [gotLock EXCEPT ![p] = TRUE]
         /\ pc' = [pc EXCEPT ![p] = "start"]
         /\ UNCHANGED code
    ELSE IF ~opt[p].Wait \/ attempts[p] >= 1
    THEN /\ pc' = [pc EXCEPT ![p] = "returned"]
         /\ code' = [code EXCEPT ![p] = opt[p].ExitCode]
         /\ UNCHANGED gotLock
    ELSE /\ pc' = [pc EXCEPT ![p] = "sleep"]
         /\ UNCHANGED <<gotLock, code>>

\* tryGetLock, main.go:185-199 and run(), main.go:121-128: what follows the
\* reply `locked` to SET
AfterSet(p, locked) ==
    IF locked # ""
    THEN /\ gotLock' = [gotLock EXCEPT ![p] = TRUE]
         /\ pc' = [pc EXCEPT ![p] = "start"]
         /\ UNCHANGED code
    ELSE IF ~opt[p].Wait
    THEN /\ pc' = [pc EXCEPT ![p] = "returned"]
         /\ code' = [code EXCEPT ![p] = opt[p].ExitCode]
         /\ UNCHANGED gotLock
    ELSE /\ pc' = [pc EXCEPT ![p] = "sleep"]
         /\ UNCHANGED <<gotLock, code>>

\* tryGetLock, main.go:184: one SET key token EX expires NX
TrySet(p) ==
    /\ pc[p] = "set"
    /\ attempts' = [attempts EXCEPT ![p] = Min(@ + 1, MaxAttempts)]
    /\ \/ /\ store' = SetNX(store, token[p], opt[p].Expires, p)
          /\ setReply' = [setReply EXCEPT ![p] =
                             IF SetNXReply(store) # "" THEN "ok" ELSE "held"]
          /\ AfterSet(p, SetNXReply(store))
          /\ UNCHANGED nFaults
       \/ /\ nFaults < MaxFaults
          /\ nFaults' = nFaults + 1
          /\ setReply' = [setReply EXCEPT ![p] = "error"]
          /\ AfterSet(p, "")
          /\ UNCHANGED store
    /\ tokensSent' = [tokensSent EXCEPT ![p] = @ \cup {token[p]}]
    /\ UNCHANGED <<argv, opt, token, cmdErr, child, wpc, wres, signalCh,
                   nextToken, nSignals, released, sent, expired, unitVars>>

\* mutant of SignalBranchNext: the signal branch returns without <-cmdCh
SignalBranchReturns == "release"

\* invokeCommand, main.go:259: after the forward, wait for the completion
SignalBranchNext == "recv"

\* invokeCommand, main.go:212-248: start the child, the goroutines, the trap
StartCmd(p) ==
    /\ pc[p] = "start"
    /\ \/ /\ child' = [child EXCEPT ![p] = "running"]
          /\ UNCHANGED nFaults
       \/ /\ nFaults < MaxFaults
          /\ nFaults' = nFaults + 1
          /\ child' = [child EXCEPT ![p] = "failed"]
    /\ wpc' = [wpc EXCEPT ![p] = "wait"]
    /\ pc' = [pc EXCEPT ![p] = "select"]
    /\ UNCHANGED <<argv, opt, token, gotLock, code, cmdErr, wres, signalCh,
                   store, nextToken, nSignals, attempts, setReply, released,
                   sent, expired,
                   tokensSent, unitVars>>

\* main.go:244: cmd.Wait() returns: the child has ended, or was never started
CmdWait(p) ==
    /\ wpc[p] = "wait"
    /\ \/ /\ child[p] = "running"
          /\ \E how \in ChildEnds : wres' = [wres EXCEPT ![p] = WaitError(how)]
          /\ child' = [child EXCEPT ![p] = "exited"]
       \/ /\ child[p] = "failed"
          /\ wres' = [wres EXCEPT ![p] = NotStarted]
          /\ UNCHANGED child
    /\ wpc' = [wpc EXCEPT ![p] = "send"]
    /\ UNCHANGED <<pc, argv, opt, token, gotLock, code, cmdErr, signalCh,
                   store, nextToken, nSignals, nFaults,
                   attempts, setReply, released, sent, expired,
                   tokensSent, unitVars>>

\* signal.Notify, main.go:247-248: a trapped signal reaches the process; the
\* send to signalCh does not block, a signal finding it full is dropped
Signal(p, s) ==
    /\ pc[p] \in {"select", "recv"}
    /\ nSignals < MaxSignals
    /\ signalCh[p] = 0
    /\ signalCh' = [signalCh EXCEPT ![p] = s]
    /\ nSignals' = nSignals + 1
    /\ UNCHANGED <<pc, argv, opt, token, gotLock, code, cmdErr, child, wpc,
                   wres, store, nextToken, nFaults,
                   attempts, setReply, released, sent, expired,
                   tokensSent, unitVars>>

\* mutant of SelectSignal: the main goroutine also takes signals while it
\* waits for the completion, and forwards each of them
SelectSignalAgain(p) ==
    /\ pc[p] \in {"select", "recv"}
    /\ signalCh[p] # 0
    /\ signalCh' = [signalCh EXCEPT ![p] = 0]
    /\ IF child[p] = "failed"
       THEN /\ pc' = [pc EXCEPT ![p] = "panic"]
            /\ UNCHANGED <<code, sent>>
       ELSE /\ sent' = [sent EXCEPT ![p] = Append(@, signalCh[p])]
            /\ code' = [code EXCEPT ![p] = signalCh[p]]
            /\ pc' = [pc EXCEPT ![p] = SignalBranchNext]
    /\ UNCHANGED <<argv, opt, token, gotLock, cmdErr, child, wpc, wres,
                   store, nextToken, nSignals, nFaults,
                   attempts, setReply, released, expired,
                   tokensSent, unitVars>>

\* main.go:250-258: the select takes the signal.  cmd.Process is nil when
\* cmd.Start failed, and cmd.Process.Signal then panics: the deferred
\* releaseLock runs and the process ends without run() returning.
SelectSignal(p) ==
    /\ pc[p] = "select"
    /\ signalCh[p] # 0
    /\ signalCh' = [signalCh EXCEPT ![p] = 0]
    /\ IF child[p] = "failed"
       THEN /\ pc' = [pc EXCEPT ![p] = "panic"]
            /\ UNCHANGED <<code, sent>>
       ELSE /\ sent' = [sent EXCEPT ![p] = Append(@, signalCh[p])]
            /\ code' = [code EXCEPT ![p] = signalCh[p]]
            /\ pc' = [pc EXCEPT ![p] = SignalBranchNext]
    /\ UNCHANGED <<argv, opt, token, gotLock, cmdErr, child, wpc, wres,
                   store, nextToken, nSignals, nFaults,
                   attempts, setReply, released, expired,
                   tokensSent, unitVars>>

\* main.go:260, 264-274: the select takes the completion; invokeCommand
\* returns and nothing reads signalCh again
SelectCmd(p) ==
    /\ pc[p] = "select"
    /\ wpc[p] = "send"
    /\ cmdErr' = [cmdErr EXCEPT ![p] = wres[p]]
    /\ code' = [code EXCEPT ![p] = ExitCodeOf(code[p], wres[p])]
    /\ wpc' = [wpc EXCEPT ![p] = "done"]
    /\ wres' = [wres EXCEPT ![p] = NilErr]
    /\ signalCh' = [signalCh EXCEPT ![p] = 0]
    /\ pc' = [pc EXCEPT ![p] = "release"]
    /\ UNCHANGED <<argv, opt, token, gotLock, child, store,
                   nextToken, nSignals, nFaults, attempts,
                   setReply, released, sent, expired,
                   tokensSent, unitVars>>

\* mutant of RecvCmd: cmdErr = <-cmdCh, so the child's status wins
RecvCmdKeepsError(p) ==
    /\ pc[p] = "recv"
    /\ wpc[p] = "send"
    /\ cmdErr' = [cmdErr EXCEPT ![p] = wres[p]]
    /\ code' = [code EXCEPT ![p] = ExitCodeOf(code[p], wres[p])]
    /\ wpc' = [wpc EXCEPT ![p] = "done"]
    /\ wres' = [wres EXCEPT ![p] = NilErr]
    /\ signalCh' = [signalCh EXCEPT ![p] = 0]
    /\ pc' = [pc EXCEPT ![p] = "release"]
    /\ UNCHANGED <<argv, opt, token, gotLock, child, store, nextToken,
                   nSignals, nFaults, attempts, setReply, released, sent,
                   expired,
                   tokensSent, unitVars>>

\* mutant of RecvCmd: after the forward the main goroutine receives from
\* signalCh again, not from cmdCh
RecvCmdFromSignalCh(p) ==
    /\ pc[p] = "recv"
    /\ signalCh[p] # 0
    /\ code' = [code EXCEPT ![p] = ExitCodeOf(code[p], cmdErr[p])]
    /\ signalCh' = [signalCh EXCEPT ![p] = 0]
    /\ pc' = [pc EXCEPT ![p] = "release"]
    /\ UNCHANGED <<argv, opt, token, gotLock, cmdErr, child, wpc, wres,
                   store, nextToken, nSignals, nFaults,
                   attempts, setReply, released, sent, expired,
                   tokensSent, unitVars>>

\* main.go:259, 264-274: after the forward, the completion is received and
\* its value dropped
RecvCmd(p) ==
    /\ pc[p] = "recv"
    /\ wpc[p] = "send"
    /\ code' = [code EXCEPT ![p] = ExitCodeOf(code[p], cmdErr[p])]
    /\ wpc' = [wpc EXCEPT ![p] = "done"]
    /\ wres' = [wres EXCEPT ![p] = NilErr]
    /\ signalCh' = [signalCh EXCEPT ![p] = 0]
    /\ pc' = [pc EXCEPT ![p] = "release"]
    /\ UNCHANGED <<argv, opt, token, gotLock, cmdErr, child,
                   store, nextToken, nSignals, nFaults,
                   attempts, setReply, released, sent, expired,
                   tokensSent, unitVars>>

\* mutant of releaseLock: a release that deleted nothing or failed becomes
\* run()'s result
releaseLockSurfacesFailure(p) ==
    /\ pc[p] \in {"release", "panic"}
    /\ IF opt[p].Keep
       THEN /\ released' = [released EXCEPT ![p] = Append(@, "keep")]
            /\ UNCHANGED <<store, nFaults, code>>
       ELSE \/ /\ store' = UnlockLUAScript(store, token[p])
               /\ released' = [released EXCEPT ![p] =
                     Append(@, IF store.val = token[p] THEN "deleted"
                               ELSE IF store.val = NoToken THEN "absent"
                               ELSE "other")]
               /\ code' = [code EXCEPT ![p] =
                     IF store.val = token[p] THEN @ ELSE ExitCodeError]
               /\ UNCHANGED nFaults
            \/ /\ nFaults < MaxFaults
               /\ nFaults' = nFaults + 1
               /\ released' = [released EXCEPT ![p] = Append(@, "error")]
               /\ code' = [code EXCEPT ![p] = ExitCodeError]
               /\ UNCHANGED store
    /\ pc' = [pc EXCEPT ![p] = IF pc[p] = "panic" THEN "crashed" ELSE "returned"]
    /\ UNCHANGED <<argv, opt, token, gotLock, cmdErr, child, wpc, wres,
                   signalCh, nextToken, nSignals,
                   attempts, setReply, sent, expired,
                   tokensSent, unitVars>>

\* releaseLock, main.go:202-209, deferred by run() at main.go:122
releaseLock(p) ==
    /\ pc[p] \in {"release", "panic"}
    /\ IF opt[p].Keep
       THEN /\ released' = [released EXCEPT ![p] = Append(@, "keep")]
            /\ UNCHANGED <<store, nFaults>>
       ELSE \/ /\ store' = UnlockLUAScript(store, token[p])
               /\ released' = [released EXCEPT ![p] =
                     Append(@, IF store.val = token[p] THEN "deleted"
                               ELSE IF store.val = NoToken THEN "absent"
                               ELSE "other")]
               /\ UNCHANGED nFaults
            \/ /\ nFaults < MaxFaults
               /\ nFaults' = nFaults + 1
               /\ released' = [released EXCEPT ![p] = Append(@, "error")]
               /\ UNCHANGED store
    /\ pc' = [pc EXCEPT ![p] = IF pc[p] = "panic" THEN "crashed" ELSE "returned"]
    /\ UNCHANGED <<argv, opt, token, gotLock, code, cmdErr, child, wpc, wres,
                   signalCh, nextToken, nSignals,
                   attempts, setReply, sent, expired,
                   tokensSent, unitVars>>

\* Redis removes the entry when its EX seconds have elapsed
Expire ==
    /\ store.val # NoToken
    /\ store' = NoEntry
    /\ expired' = [expired EXCEPT ![store.by] = TRUE]
    /\ UNCHANGED <<pc, nextToken, nSignals, nFaults, procVars, unitVars>>

Next ==
    \/ Expire
    \/ \E p \in Procs :
        \/ RunParseOptions(p)
        \/ Dial(p)
        \/ Wake(p)
        \/ Validate(p)
        \/ CreateToken(p)
        \/ TrySet(p)
        \/ StartCmd(p)
        \/ CmdWait(p)
        \/ SelectSignal(p)
        \/ SelectCmd(p)
        \/ RecvCmd(p)
        \/ releaseLock(p)
        \/ \E s \in TrapSignals : Signal(p, s)

Spec == Init /\ [][Next]_vars


\* ------------------------------------------- the retry loop, scheduled fairly
\* No signal is delivered; the store may still fail MaxFaults times.  Redis
\* expires entries, and a process in tryGetLock's loop keeps being scheduled.
LiveInit ==
    Start /\ nSignals = MaxSignals /\ nFaults = 0 /\ ver = NoVer /\ conn = NoConn

LiveNext ==
    \/ Expire
    \/ \E p \in Procs :
        \/ RunParseOptions(p)
        \/ Dial(p)
        \/ Wake(p)
        \/ Validate(p)
        \/ CreateToken(p)
        \/ TrySet(p)
        \/ StartCmd(p)
        \/ CmdWait(p)
        \/ SelectCmd(p)
        \/ releaseLock(p)

LiveSpec ==
    /\ LiveInit
    /\ [][LiveNext]_vars
    /\ WF_vars(Expire)
    /\ \A p \in Procs : WF_vars(TrySet(p)) /\ WF_vars(Wake(p))

\* ------------------------------------------------- one invocation alone
\* Invocation Sup runs with the key to itself and is delivered up to
\* MaxSupSignals signals; the other invocations have not been scheduled.
Sup == 1

\* signal.Notify, main.go:247-248, as Signal, for the invocation running alone
SupSignal(p, s) ==
    /\ pc[p] \in {"select", "recv"}
    /\ nSignals < MaxSupSignals
    /\ signalCh[p] = 0
    /\ signalCh' = [signalCh EXCEPT ![p] = s]
    /\ nSignals' = nSignals + 1
    /\ UNCHANGED <<pc, argv, opt, token, gotLock, code, cmdErr, child, wpc,
                   wres, store, nextToken, nFaults,
                   attempts, setReply, released, sent, expired,
                   tokensSent, unitVars>>

SupNext ==
    \/ Expire
    \/ RunParseOptions(Sup)
    \/ Dial(Sup)
    \/ Wake(Sup)
    \/ Validate(Sup)
    \/ CreateToken(Sup)
    \/ TrySet(Sup)
    \/ StartCmd(Sup)
    \/ CmdWait(Sup)
    \/ SelectSignal(Sup)
    \/ SelectCmd(Sup)
    \/ RecvCmd(Sup)
    \/ releaseLock(Sup)
    \/ \E s \in TrapSignals : SupSignal(Sup, s)

SupSpec == Init /\ [][SupNext]_vars

\* the Go scheduler runs a goroutine that can proceed: the main goroutine at
\* its select and at its receive, the watcher when cmd.Wait() can return for
\* a command that was not started
SupLiveSpec ==
    /\ SupSpec
    /\ WF_vars(SelectCmd(Sup) \/ SelectSignal(Sup))
    /\ WF_vars(RecvCmd(Sup))

\* ------------------------------------ connectToRedisServer on its own
\* The clock counts milliseconds from `start` (main.go:136) in ticks of Tick;
\* conn.now is end.Sub(start) in milliseconds.
Tick == 250

ConnOptions == [Wait : BOOLEAN, Expires : 0..MaxExpires]

\* how long a call of redis.DialTimeout lasts, and a time.Sleep(RetryInterval),
\* which lasts at least RetryInterval
DialTimes == {k * Tick : k \in 0..MaxDialTicks}

SleepTimes == {RetryInterval, RetryInterval + Tick}

DialInit ==
    /\ Start /\ nSignals = 0 /\ nFaults = 0 /\ ver = NoVer
    /\ \E o \in ConnOptions :
          conn = [pc |-> "dial", opt |-> o, now |-> 0, dials |-> 0,
                  sleeps |-> 0, err |-> FALSE]

\* main.go:138-146: one DialTimeout and the test of the elapsed time
ConnDial ==
    /\ conn.pc = "dial"
    /\ \E d \in DialTimes, ok \in BOOLEAN :
          LET end == conn.now + d
              elapsed == end
          IN  conn' = [conn EXCEPT
                  !.now = end,
                  !.dials = @ + 1,
                  !.err = ~ok,
                  !.pc = IF ok THEN "done"
                         ELSE IF elapsed >= TimeoutOf(conn.opt) * 1000 THEN "done"
                         ELSE "sleep"]
    /\ UNCHANGED <<pc, store, nextToken, nSignals, nFaults, expired, procVars, ver>>

\* main.go:147: time.Sleep(RetryInterval)
ConnSleep ==
    /\ conn.pc = "sleep"
    /\ \E d \in SleepTimes :
          conn' = [conn EXCEPT !.now = @ + d, !.sleeps = @ + 1, !.pc = "dial"]
    /\ UNCHANGED <<pc, store, nextToken, nSignals, nFaults, expired, procVars, ver>>

DialNext == ConnDial \/ ConnSleep

DialSpec == DialInit /\ [][DialNext]_vars

\* ------------------------------------- validateRedisVersion on its own
\* Text is a sequence of one-character strings.
Digits == <<"0", "1", "2", "3", "4", "5", "6", "7", "8", "9">>

IsDigit(c) == \E d \in 1..10 : Digits[d] = c

DigitValue(c) == (CHOOSE d \in 1..10 : Digits[d] = c) - 1

\* strconv.Itoa for n >= 0: what the server writes into the field
RECURSIVE Itoa(_)
Itoa(n) ==
    IF n < 10 THEN <<Digits[n + 1]>>
    ELSE Append(Itoa(n \div 10), Digits[(n % 10) + 1])

\* the value of a string of digits
RECURSIVE DigitsValue(_)
DigitsValue(s) ==
    IF s = <<>> THEN 0
    ELSE 10 * DigitsValue(SubSeq(s, 1, Len(s) - 1)) + DigitValue(s[Len(s)])

\* strconv.Atoi with its error dropped (main.go:170-172): an optional sign
\* and digits give the number, anything else gives 0
Atoi(s) ==
    LET signed == s # <<>> /\ s[1] \in {"+", "-"}
        body == IF signed THEN Tail(s) ELSE s
    IN  IF body = <<>> \/ \E i \in 1..Len(body) : ~IsDigit(body[i]) THEN 0
        ELSE IF signed /\ s[1] = "-" THEN 0 - DigitsValue(body)
        ELSE DigitsValue(body)

\* strings.SplitN(s, sep, n) for a one-character sep; n < 0 is strings.Split
RECURSIVE SplitN(_, _, _)
SplitN(s, sep, n) ==
    IF n = 1 \/ ~\E i \in 1..Len(s) : s[i] = sep THEN <<s>>
    ELSE LET i == CHOOSE j \in 1..Len(s) :
                     s[j] = sep /\ \A k \in 1..(j - 1) : s[k] # sep
         IN  <<SubSeq(s, 1, i - 1)>> \o SplitN(SubSeq(s, i + 1, Len(s)), sep, n - 1)

FieldName == <<"r", "e", "d", "i", "s", "_", "v", "e", "r", "s", "i", "o", "n">>

\* main.go:157-163: the value of the first redis_version line; indexing
\* pair[1] panics on a line that is the bare name
RECURSIVE VersionField(_)
VersionField(lines) ==
    IF lines = <<>> THEN <<>>
    ELSE LET pair == SplitN(lines[1], ":", 2)
         IN  IF pair[1] = FieldName
             THEN IF Len(pair) < 2 THEN <<"panic">> ELSE pair[2]
             ELSE VersionField(Tail(lines))

\* validateRedisVersion, main.go:152-178, on the text of the INFO reply:
\* "true", "false", or "panic" (index out of range)
ValidateInfo(info) ==
    LET version == VersionField(SplitN(info, "\n", -1))
        vNumbers == SplitN(version, ".", 3)
    IN  IF version = <<"panic">> THEN "panic"
        ELSE IF version = <<>> THEN "false"
        ELSE IF Len(vNumbers) < 3 THEN "panic"
        ELSE IF validateRedisVersion(<<Atoi(vNumbers[1]), Atoi(vNumbers[2]),
                                       Atoi(vNumbers[3])>>)
             THEN "true" ELSE "false"

\* the end of a line of the INFO reply: Redis writes "\r\n"; "\n" alone is
\* what main.go:157 splits on
Eols == {<<"\n">>, <<"\r", "\n">>}

\* versions a server may report; <<>> is a reply without the field
ServerVersions ==
    {<<>>} \cup {<<a, b, c>> : a \in 0..MaxMajor, b \in 0..MaxMinor, c \in 0..MaxRev}

\* the INFO reply of a server of version v
InfoReply(v, eol) ==
    <<"#", " ", "S">> \o eol
      \o (IF v = <<>> THEN <<>>
          ELSE FieldName \o <<":">> \o Itoa(v[1]) \o <<".">> \o Itoa(v[2])
                  \o <<".">> \o Itoa(v[3]) \o eol)
      \o <<"o", "s", ":", "L">> \o eol

VersionInit ==
    /\ Start /\ nSignals = 0 /\ nFaults = 0 /\ conn = NoConn
    /\ \E v \in ServerVersions, eol \in Eols :
          ver = [server |-> v, info |-> InfoReply(v, eol), valid |-> "none"]

\* run(), main.go:117: the call of validateRedisVersion
ValidateVersion ==
    /\ ver.valid = "none"
    /\ ver' = [ver EXCEPT !.valid = ValidateInfo(ver.info)]
    /\ UNCHANGED <<pc, store, nextToken, nSignals, nFaults, expired, procVars, conn>>

VersionNext == ValidateVersion

VersionSpec == VersionInit /\ [][VersionNext]_vars

\* ------------------------------------------------------------- claims
Running(p) == child[p] = "running"

Holds(p) == store.val # NoToken /\ store.val = token[p] /\ store.by = p

\* C1: while an entry exists under the key no SET NX succeeds: no process
\* acquires, a process that leaves its SET finds the store as it was and has
\* not got the lock, and the stored token changes only by being removed.
C1_AtMostOneSetSucceeds ==
    [][ store.val # NoToken =>
          /\ \A p \in Procs : gotLock'[p] = gotLock[p]
          /\ store' \in {store, NoEntry}
          /\ \A p \in Procs :
                (pc[p] = "set" /\ pc'[p] # "set")
                    => store' = store /\ setReply'[p] \in {"held", "error"}
      ]_vars

\* C1 witness: a SET found the key held by another process, whose entry stands
C1_Witness ==
    \E p, q \in Procs :
        /\ p # q
        /\ setReply[p] = "held"
        /\ ~gotLock[p]
        /\ Holds(q)

\* C2 (as claimed): at most one process runs its guarded command
C2_Original ==
    \A p, q \in Procs : (Running(p) /\ Running(q)) => p = q

\* C2 (amended): a process running its guarded command holds the stored
\* entry unless that entry's TTL has elapsed; so of any two processes running
\* their commands at once, at least one has had its entry expire.
C2_Amended ==
    /\ \A p \in Procs : Running(p) => Holds(p) \/ expired[p]
    /\ \A p, q \in Procs :
          (p # q /\ Running(p) /\ Running(q)) => expired[p] \/ expired[q]

\* C2 witness: two guarded commands run at once after a TTL elapsed
C2_Witness ==
    \E p, q \in Procs :
        p # q /\ Running(p) /\ Running(q) /\ expired[p] /\ Holds(q)

\* C3: a releaseLock call changes the store only by deleting the entry that
\* bears its own token, written by its own process, and leaves any other
\* entry in place; an entry disappears only by TTL expiry or by a release of
\* the process that wrote it.
C3_ReleaseOnlyOwn ==
    [][ /\ \A p \in Procs :
            released'[p] # released[p] =>
                /\ store' # store => Holds(p) /\ store' = NoEntry
                /\ (store.val # NoToken /\ store.val # token[p]) => store' = store
        /\ (store.val # NoToken /\ store'.val # store.val) =>
                \/ expired' # expired
                \/ released'[store.by] # released[store.by]
      ]_vars

\* C3 witness: a release found another process's entry under the key after
\* its own had expired, and left it there
C3_Witness ==
    \E p, q \in Procs :
        p # q /\ expired[p] /\ released[p] = <<"other">> /\ Holds(q)

ReturnedNormally(p) ==
    /\ pc[p] = "returned"
    /\ gotLock[p]
    /\ child[p] = "exited"
    /\ sent[p] = <<>>
    /\ cmdErr[p].status >= 0

\* C4 (as claimed), read at the instant run() returns: when a run whose
\* command exited normally returns (its release script executed, when one was
\* sent), no entry is under the key without --keep; with --keep this run's
\* entry is under it unless its TTL has elapsed
C4_Original ==
    [][ \A p \in Procs :
          (pc[p] = "release" /\ pc'[p] = "returned" /\ ReturnedNormally(p)'
                /\ released'[p] # <<"error">>) =>
              IF opt[p].Keep
              THEN store'.val = token[p] \/ expired'[p]
              ELSE store'.val = NoToken
      ]_vars

\* C4 (amended): after a run whose command exited normally has returned:
\* without --keep, if the release script was executed, no entry bearing this
\* run's token is under the key (an entry that another process wrote may be);
\* with --keep no script is sent and the entry bearing this run's token is
\* under the key unless its TTL has elapsed.
C4_Amended ==
    \A p \in Procs :
        ReturnedNormally(p) =>
            IF opt[p].Keep
            THEN released[p] = <<"keep">> /\ (Holds(p) \/ expired[p])
            ELSE released[p] # <<"error">> => store.val # token[p]

\* C4 witness: one run has released its entry, another has kept its own
C4_Witness ==
    \E p, q \in Procs :
        /\ ReturnedNormally(p) /\ ~opt[p].Keep /\ released[p] = <<"deleted">>
        /\ ReturnedNormally(q) /\ opt[q].Keep /\ Holds(q)

\* C5: releaseLock is called only by a run that acquired the lock, only once
\* the guarded command is over (the child has ended and its completion was
\* received, or it never started), at most once, and exactly once by the time
\* the run is over.
C5_ReleaseOnceAfterChild ==
    \A p \in Procs :
        /\ Len(released[p]) <= 1
        /\ released[p] # <<>> =>
              /\ gotLock[p]
              /\ child[p] \in {"exited", "failed"}
              /\ child[p] = "exited" => wpc[p] = "done"
        /\ (pc[p] \in {"returned", "crashed"} /\ gotLock[p]) => Len(released[p]) = 1

\* C5 witness: a run on the signal path, whose child exited non-zero on the
\* way, has released
C5_Witness ==
    \E p \in Procs :
        pc[p] = "returned" /\ sent[p] # <<>> /\ Len(released[p]) = 1

\* C6: with -n a held key costs one SET: no sleep, no second SET, the error
\* return, and no guarded command
C6_NoWaitFailsFast ==
    \A p \in Procs :
        (pc[p] # "parse" /\ ~opt[p].Wait) =>
            /\ attempts[p] <= 1
            /\ pc[p] # "sleep"
            /\ setReply[p] = "held" =>
                  /\ attempts[p] = 1
                  /\ pc[p] = "returned"
                  /\ ~gotLock[p]
                  /\ code[p] = opt[p].ExitCode
                  /\ child[p] = "none"
                  /\ wpc[p] = "off"

\* C6 witness: a -n invocation found the key held by another and returned
C6_Witness ==
    \E p, q \in Procs :
        /\ p # q
        /\ ~opt[p].Wait /\ setReply[p] = "held" /\ pc[p] = "returned"
        /\ Holds(q)

\* C7: a -n invocation that found the key held returns 0 with -x and 111
\* without; one that found it free has the lock and returns the status its
\* command exited with when the completion came first.
C7_ContentionExitCode ==
    \A p \in Procs :
        (argv[p].n /\ pc[p] = "returned") =>
            /\ setReply[p] = "held" =>
                  code[p] = IF argv[p].x THEN 0 ELSE ExitCodeError
            /\ setReply[p] = "ok" => gotLock[p]
            /\ (gotLock[p] /\ child[p] = "exited" /\ sent[p] = <<>>) =>
                  /\ cmdErr[p].kind = "nil" => code[p] = 0
                  /\ cmdErr[p].kind = "ExitError" => code[p] = cmdErr[p].status

\* C7 witness: -n -x on a held key returned 0
C7_Witness ==
    \E p, q \in Procs :
        /\ p # q
        /\ argv[p].n /\ argv[p].x /\ setReply[p] = "held"
        /\ pc[p] = "returned" /\ code[p] = 0
        /\ Holds(q)

\* C8: in wait mode a process in tryGetLock's loop does not acquire while an
\* entry exists, and eventually acquires
C8_WaitEventuallyAcquires ==
    /\ [][ \A p \in Procs :
              (store.val # NoToken /\ ~gotLock[p]) => ~gotLock'[p] ]_vars
    /\ \A p \in Procs :
          (opt[p].Wait /\ pc[p] \in {"set", "sleep"}) ~> gotLock[p]

\* C8 witness: a waiting process acquired after a SET that found the key held
C8_Witness ==
    \E p, q \in Procs :
        /\ p # q
        /\ opt[p].Wait /\ attempts[p] >= 2 /\ Holds(p)
        /\ gotLock[q]

\* C9: when the select takes a trapped signal, that signal is forwarded to the
\* child and becomes the exit code; invokeCommand is over only once the
\* completion was received, and the code is then still the signal's number.
C9_SignalPath ==
    /\ [][ \A p \in Procs :
              (pc[p] = "select" /\ pc'[p] = "recv") =>
                  /\ signalCh[p] \in TrapSignals
                  /\ sent'[p] = <<signalCh[p]>>
                  /\ code'[p] = signalCh[p] ]_vars
    /\ [](\A p \in Procs :
              sent[p] # <<>> =>
                  /\ Len(sent[p]) = 1
                  /\ pc[p] \in {"recv", "release", "returned"}
                  /\ code[p] = sent[p][1]
                  /\ pc[p] \in {"release", "returned"} =>
                        child[p] = "exited" /\ wpc[p] = "done")

\* C9 witness: a run returned the signal's number
C9_Witness ==
    \E p \in Procs :
        pc[p] = "returned" /\ sent[p] = <<SIGTERM>> /\ code[p] = SIGTERM

\* C10 (as claimed): a run whose child could not be started never returns 0
C10_StartFailureNonZero ==
    \A p \in Procs :
        (pc[p] = "returned" /\ child[p] = "failed") => code[p] # 0

\* the least version with SET ... EX ... NX (README, main.go:173)
MinVersion == <<2, 6, 12>>

\* lexicographic >= on version triples
LexGE(v, w) ==
    \/ v[1] > w[1]
    \/ v[1] = w[1] /\ v[2] > w[2]
    \/ v[1] = w[1] /\ v[2] = w[2] /\ v[3] >= w[3]

\* C11 (as claimed): validateRedisVersion answers true exactly for a server
\* whose redis_version is at least 2.6.12, and false for a reply without the
\* field
C11_VersionGate ==
    ver.valid # "none" =>
        ver.valid = IF ver.server # <<>> /\ LexGE(ver.server, MinVersion)
                    THEN "true" ELSE "false"

\* C12: a run that returns from the dial or from the version gate returns
\* ExitCodeError, with or without -x; such a run has sent no SET, started no
\* guarded command and no completion watcher, and called no release.
C12_FailsBeforeAcquisition ==
    /\ [][ \A p \in Procs :
              (pc[p] \in {"dial", "validate"} /\ pc'[p] = "returned") =>
                  code'[p] = ExitCodeError /\ attempts'[p] = 0 ]_vars
    /\ [](\A p \in Procs :
              (pc[p] = "returned" /\ attempts[p] = 0) =>
                  /\ code[p] = ExitCodeError
                  /\ tokensSent[p] = {} /\ setReply[p] = "none" /\ ~gotLock[p]
                  /\ child[p] = "none" /\ wpc[p] = "off"
                  /\ released[p] = <<>>)

\* C12 witness: two -n -x runs returned 111 without a SET, one on its failed
\* dial (the one fault), the other on the version gate
C12_Witness ==
    \E p, q \in Procs :
        /\ p # q /\ nFaults = 1
        /\ \A r \in {p, q} :
              /\ argv[r].n /\ argv[r].x /\ opt[r].ExitCode = 0
              /\ pc[r] = "returned" /\ attempts[r] = 0
              /\ code[r] = ExitCodeError

\* C13 (as claimed): every SET of one run of tryGetLock carries a token not
\* sent before in that run: the run has sent as many distinct tokens as SETs
\* (counted up to MaxAttempts)
C13_FreshTokenPerAttempt ==
    \A p \in Procs : Cardinality(tokensSent[p]) >= attempts[p]

\* C14: once invokeCommand has returned its code, that code is run()'s
\* result: the releaseLock call leaves it as it is whatever the script's
\* outcome (deleted, entry absent, entry of another token, error reply, or
\* no script with --keep), run() returns right after it, and the code of a
\* returned run never changes.
C14_ReleaseKeepsExitCode ==
    [][ \A p \in Procs :
          pc[p] \in {"release", "returned"} =>
              /\ code'[p] = code[p]
              /\ released'[p] # released[p] =>
                    /\ pc[p] = "release" /\ pc'[p] = "returned"
                    /\ \E o \in {"keep", "deleted", "absent", "other", "error"} :
                          released'[p] = <<o>>
      ]_vars

\* C14 witness: one run's release met an error reply, the other's found the
\* entry of another token; each returned the status its command exited with
C14_Witness ==
    \E p, q \in Procs :
        /\ p # q
        /\ pc[p] = "returned" /\ released[p] = <<"error">>
        /\ cmdErr[p].kind = "ExitError" /\ cmdErr[p].status = 1 /\ code[p] = 1
        /\ pc[q] = "returned" /\ released[q] = <<"other">>
        /\ cmdErr[q].kind = "nil" /\ sent[q] = <<>> /\ code[q] = 0

\* C15: when the select takes the completion of a child that exited with
\* status k, invokeCommand returns k (0 for 0, k for k > 0) and no signal was
\* forwarded; run() returns that value.
C15_ChildStatusVerbatim ==
    /\ [][ \A p \in Procs :
              (pc[p] = "select" /\ pc'[p] = "release") =>
                  \A k \in 0..MaxStatus :
                      wres[p] = WaitError([kind |-> "exited", status |-> k]) =>
                          code'[p] = k /\ sent'[p] = <<>> ]_vars
    /\ [](\A p \in Procs :
              (pc[p] \in {"release", "returned"} /\ child[p] = "exited"
                    /\ sent[p] = <<>>) =>
                  \A k \in 0..MaxStatus :
                      cmdErr[p] = WaitError([kind |-> "exited", status |-> k]) =>
                          code[p] = k)

\* C15 witness: a signal was pending, the select took the completion of a
\* child that exited MaxStatus, and run() returned MaxStatus
C15_Witness ==
    /\ pc[Sup] = "returned" /\ child[Sup] = "exited" /\ sent[Sup] = <<>>
    /\ nSignals >= 1
    /\ cmdErr[Sup] = WaitError([kind |-> "exited", status |-> MaxStatus])
    /\ code[Sup] = MaxStatus /\ MaxStatus > 0

\* C16: without wait connectToRedisServer dials once and returns that dial's
\* outcome.  With wait a failed dial is followed by a sleep of at least
\* RetryInterval and another dial as long as the time elapsed since the start
\* is below Expires seconds; the function returns on the first dial that
\* succeeds, or with the error of the first dial that fails once the elapsed
\* time has reached Expires seconds.
C16_DialLoop ==
    /\ [][
          /\ (conn.pc = "dial" /\ conn'.pc = "done" /\ conn'.err) =>
                (~conn.opt.Wait \/ conn'.now >= conn.opt.Expires * 1000)
          /\ (conn.pc = "dial" /\ conn'.pc = "sleep") =>
                /\ conn.opt.Wait /\ conn'.err
                /\ conn'.now < conn.opt.Expires * 1000
          /\ (conn.pc = "dial" /\ conn' # conn) =>
                /\ conn'.dials = conn.dials + 1
                /\ conn'.pc \in {"done", "sleep"}
                /\ (~conn'.err => conn'.pc = "done")
          /\ conn.pc = "sleep" =>
                \/ conn' = conn
                \/ conn'.pc = "dial" /\ conn'.now >= conn.now + RetryInterval
          /\ conn.pc = "done" => conn' = conn
       ]_vars
    /\ [](
          /\ (conn.pc = "done" /\ ~conn.opt.Wait) =>
                conn.dials = 1 /\ conn.sleeps = 0
          /\ conn.pc \in {"sleep", "done"} => conn.dials = conn.sleeps + 1
          /\ conn.pc = "dial" => conn.dials = conn.sleeps
       )

\* C16 witness: in wait mode with --expires MaxExpires the dial failed three
\* times or more, with a sleep between the attempts, and the last error was
\* returned when MaxExpires seconds had elapsed
C16_Witness ==
    /\ conn.pc = "done" /\ conn.err
    /\ conn.opt.Wait /\ conn.opt.Expires = MaxExpires
    /\ conn.dials >= 3 /\ conn.sleeps = conn.dials - 1
    /\ conn.now >= MaxExpires * 1000

\* C17: in wait mode every SET that does not succeed (key held, or an error
\* reply) is followed by a sleep and the sleep by another SET, however many
\* SETs were sent before; tryGetLock is left only with the lock, so a run in
\* wait mode that sent a SET and returned had acquired.
C17_WaitRetriesForever ==
    /\ [][ \A p \in Procs :
              /\ (opt[p].Wait /\ pc[p] = "set" /\ pc'[p] # "set") =>
                    IF setReply'[p] = "ok"
                    THEN gotLock'[p] /\ pc'[p] = "start"
                    ELSE /\ setReply'[p] \in {"held", "error"}
                         /\ ~gotLock'[p] /\ pc'[p] = "sleep"
              /\ (pc[p] = "sleep" /\ pc'[p] # "sleep") => pc'[p] = "set" ]_vars
    /\ [](\A p \in Procs :
              (opt[p].Wait /\ attempts[p] >= 1
                    /\ pc[p] \notin {"set", "sleep"}) => gotLock[p])

\* C17 witness: a waiting run whose SET found the key held and whose next
\* SET got an error reply sleeps before a further attempt
C17_Witness ==
    \E p, q \in Procs :
        /\ p # q /\ Holds(q)
        /\ opt[p].Wait /\ attempts[p] = MaxAttempts /\ MaxAttempts >= 2
        /\ setReply[p] = "error" /\ pc[p] = "sleep" /\ ~gotLock[p]

\* C18: whichever of the completion and the signal the select meets first,
\* or both at once, the value the watcher sends on cmdCh is received exactly
\* once, by the select or by the receive that follows the forward, and
\* invokeCommand returns with that receive; once the child has ended its
\* completion is received, so the watcher does not stay blocked on its send
\* and the main goroutine does not stay in invokeCommand.
C18_CompletionReceivedOnce ==
    /\ [][ \A p \in Procs :
              /\ (wpc[p] # "done" /\ wpc'[p] = "done") =>
                    /\ wpc[p] = "send"
                    /\ pc[p] \in {"select", "recv"} /\ pc'[p] = "release"
              /\ wpc[p] = "done" => wpc'[p] = "done"
              /\ (pc[p] \in {"select", "recv"} /\ pc'[p] = "release") =>
                    wpc[p] = "send" /\ wpc'[p] = "done" ]_vars
    /\ \A p \in Procs :
          (child[p] = "exited" /\ wpc[p] = "send") ~>
              (wpc[p] = "done" /\ pc[p] \in {"release", "returned"})

\* C18 witness: the completion was received after a forward, with a second
\* signal delivered on the way, and run() returned
C18_Witness ==
    /\ pc[Sup] = "returned" /\ child[Sup] = "exited" /\ wpc[Sup] = "done"
    /\ Len(sent[Sup]) = 1 /\ nSignals = MaxSupSignals /\ MaxSupSignals >= 2

\* C19: a run forwards at most one signal.  After the forward the main
\* goroutine only waits for the completion: a signal that arrives then is
\* not forwarded and leaves the exit code alone, nothing is released and the
\* entry stays (unless its TTL elapses), and the wait ends only when the
\* child has ended, with the first signal's number as the code.
C19_OneForward ==
    /\ [](\A p \in Procs : Len(sent[p]) <= 1)
    /\ [][ \A p \in Procs :
              pc[p] = "recv" =>
                  /\ sent'[p] = sent[p]
                  /\ code'[p] = sent[p][1]
                  /\ released'[p] = released[p]
                  /\ Holds(p) => (store' = store \/ expired'[p])
                  /\ pc'[p] \in {"recv", "release"}
                  /\ pc'[p] = "release" => child[p] = "exited" ]_vars

\* C19 witness: after SIGTERM was forwarded the child runs on; SIGINT has
\* arrived and stays in signalCh, the code is SIGTERM's and the lock is held
C19_Witness ==
    /\ pc[Sup] = "recv" /\ child[Sup] = "running"
    /\ sent[Sup] = <<SIGTERM>> /\ signalCh[Sup] = SIGINT
    /\ code[Sup] = SIGTERM
    /\ Holds(Sup) /\ released[Sup] = <<>>

\* C20: a run without wait whose SET does not succeed returns leaving the
\* entry under the key as it was (value, TTL, holder); such a run never
\* wrote an entry and never calls releaseLock; and a release script executed
\* for the process whose entry is under the key deletes that entry.
C20_FailedAcquisitionFrame ==
    /\ [][ \A p \in Procs :
              /\ (~opt[p].Wait /\ pc[p] = "set" /\ pc'[p] = "returned") =>
                    /\ store' = store
                    /\ ~gotLock'[p] /\ released'[p] = <<>>
              /\ (released'[p] # released[p] /\ ~opt[p].Keep /\ Holds(p)
                      /\ released'[p] # <<"error">>) =>
                    store' = NoEntry /\ released'[p] = <<"deleted">> ]_vars
    /\ [](\A p \in Procs :
              (pc[p] = "returned" /\ ~gotLock[p]) =>
                  /\ released[p] = <<>> /\ ~expired[p]
                  /\ store.by # p
                  /\ child[p] = "none")

\* C20 witness: a -n run found the key held by a process whose entry had not
\* expired and returned; that process then released and its entry is gone
C20_Witness ==
    \E p, q \in Procs :
        /\ p # q
        /\ ~opt[p].Wait /\ setReply[p] = "held" /\ pc[p] = "returned"
        /\ ~gotLock[p] /\ released[p] = <<>>
        /\ pc[q] = "returned" /\ attempts[q] = 1 /\ ~expired[q]
        /\ released[q] = <<"deleted">>
        /\ store = NoEntry

=============================================================================
